---- MODULE Spec2Model ----
(***************************************************************************)
(* Model of plugin.py (Marvel Rivals G-Assist plugin): the pipe reader,    *)
(* the dispatch loop of main(), the response builders, the four command    *)
(* handlers and the frame writer.                                          *)
(*                                                                         *)
(* Python values are tagged records: [t |-> "None"], [t |-> "str", s],     *)
(* [t |-> "bool", b], [t |-> "dict", d] where d maps key names to values.  *)
(* A call yields [exc, val]: exc = "none" when it returns val, otherwise   *)
(* the name of the exception it raises.                                    *)
(***************************************************************************)
EXTENDS Integers, Sequences, FiniteSets, TLC

VARIABLES
    pc,         \* position in main(): "loop", "read", "dispatch", "for", "write", "done", "crashed"
    cmd,        \* main(): the running command name
    response,   \* main(): the response of the current iteration
    input,      \* main(): what read_command() returned
    todo,       \* main(): the sub-commands the for statement has not reached yet
    chunks,     \* read_command(): the chunks read so far (kept until the next call)
    pending,    \* the pipe: the frame the host wrote and how far it has been read
    nframes,    \* the pipe: number of frames the host has written
    config,     \* the file system: what CONFIG_FILE holds
    calls,      \* handlers invoked in the current iteration, in order
    lastArgs,   \* positional arguments of the most recent handler call
    httpCount,  \* requests.get calls made in the current iteration
    lastUrl,    \* URL of the most recent requests.get call
    written,    \* frames handed to WriteFile in the current iteration
    batchLen,   \* length of the tool_calls array of the current envelope (-1: none)
    branch,     \* the branch of lines 79-98 taken most recently in the current iteration
    initLog,    \* what each completed iteration of a lone 'initialize' wrote, and cmd then
    exc         \* the exception that ended main(), "none" while it runs

vars == <<pc, cmd, response, input, todo, chunks, pending, nframes, config,
          calls, lastArgs, httpCount, lastUrl, written, batchLen, branch, initLog, exc>>

(***************************************************************************)
(* Bounds of the model.                                                    *)
(***************************************************************************)
MaxBatch == 2     \* longest tool_calls array the host sends
MaxFrames == 2    \* frames the host writes to the pipe in one run
ShortLen == 64    \* byte length of a frame that fits one buffer

BUFFER_SIZE == 4096

(***************************************************************************)
(* Python values.                                                          *)
(***************************************************************************)
PyNone == [t |-> "None"]
PyStr(parts) == [t |-> "str", s |-> parts]
PyBool(b) == [t |-> "bool", b |-> b]
PyDict(d) == [t |-> "dict", d |-> d]
EmptyMap == [k \in {} |-> PyNone]

Put(d, k, v) == [j \in DOMAIN d \cup {k} |-> IF j = k THEN v ELSE d[j]]

Return(v) == [exc |-> "none", val |-> v]
Raise(e) == [exc |-> e, val |-> PyNone]

\* Python truth value of None and of a str
Truthy(v) == IF v.t = "None" THEN FALSE
             ELSE IF v.t = "str" THEN v.s # <<>>
             ELSE TRUE

Min(a, b) == IF a < b THEN a ELSE b

(***************************************************************************)
(* The response builders.  body.copy() exists for a dict; a str has no     *)
(* copy attribute, so the call raises AttributeError.                      *)
(***************************************************************************)
\* generate_failure_response written as {'success': False, **body}: a
\* 'success' key of the payload overwrites the builder's flag
generate_failure_response_payload_wins(body) ==
    IF body.t = "None" THEN Return(PyDict(Put(EmptyMap, "success", PyBool(FALSE))))
    ELSE IF body.t = "dict"
        THEN Return(PyDict(IF "success" \in DOMAIN body.d THEN body.d
                           ELSE Put(body.d, "success", PyBool(FALSE))))
    ELSE Raise("AttributeError")

generate_failure_response(body) ==
    IF body.t = "None" THEN Return(PyDict(Put(EmptyMap, "success", PyBool(FALSE))))
    ELSE IF body.t = "dict" THEN Return(PyDict(Put(body.d, "success", PyBool(FALSE))))
    ELSE Raise("AttributeError")

generate_success_response(body) ==
    IF body.t = "None" THEN Return(PyDict(Put(EmptyMap, "success", PyBool(TRUE))))
    ELSE IF body.t = "dict" THEN Return(PyDict(Put(body.d, "success", PyBool(TRUE))))
    ELSE Raise("AttributeError")

Message(parts) == PyDict([message |-> PyStr(parts)])

(***************************************************************************)
(* The environment of the domain handlers: what CONFIG_FILE holds and how  *)
(* the remote API answers requests.get.                                    *)
(*   "absent"   os.path.isfile(CONFIG_FILE) is false                       *)
(*   "invalid"  the file is not JSON: json.load raises                     *)
(*   "nokey"    a JSON object without 'api_key'                            *)
(*   "emptykey" 'api_key' is the empty string                              *)
(*   "haskey"   'api_key' is a non-empty string                            *)
(***************************************************************************)
ConfigStates == {"absent", "invalid", "nokey", "emptykey", "haskey"}

NetOutcomes ==
    { [kind |-> "response", status |-> s, body |-> "ok"] : s \in {200, 401, 404, 429, 500, 302} }
    \cup { [kind |-> "response", status |-> 200, body |-> "bad"],
           [kind |-> "timeout", status |-> 0, body |-> "bad"],
           [kind |-> "error", status |-> 0, body |-> "bad"] }

NoUrl == << >>

\* Result of a handler: what it returns or raises, and the request it made.
Handled(r, n, url) == [exc |-> r.exc, val |-> r.val, http |-> n, url |-> url]

(***************************************************************************)
(* Lines 296-299 and 353-356: MRIVALS_API_KEY is assigned inside the       *)
(* function, so it is a local name there; it is bound only when the file   *)
(* exists.  bound = FALSE models the unbound local.                        *)
(***************************************************************************)
ReadConfigKey(cfg) ==
    IF cfg = "absent" THEN [exc |-> "none", bound |-> FALSE, key |-> PyNone]
    ELSE IF cfg = "invalid" THEN [exc |-> "JSONDecodeError", bound |-> FALSE, key |-> PyNone]
    ELSE IF cfg = "nokey" THEN [exc |-> "none", bound |-> TRUE, key |-> PyNone]
    ELSE IF cfg = "emptykey" THEN [exc |-> "none", bound |-> TRUE, key |-> PyStr(<< >>)]
    ELSE [exc |-> "none", bound |-> TRUE, key |-> PyStr(<<"KEY">>)]

MissingKeyMessage == <<"Missing API key. Add 'api_key' to config.json next to the EXE.">>

\* summarize_character / summarize_player_stats, as far as the handlers
\* depend on them: a str built from the payload, or an exception when the
\* payload does not have the expected shape (body = "bad").
summarize_character(name) == name \o <<" is a hero.">>
summarize_player_stats(name) == name \o <<" has played.">>

\* params['<key>'] when present and not None, else the built-in default
NameParam(params, key, default) ==
    IF key \in DOMAIN params.d /\ params.d[key].t # "None"
    THEN params.d[key].s
    ELSE default

\* The try block of execute_get_character_info, lines 313-348.
CharacterRequest(character_name, net) ==
    IF net.kind = "timeout" THEN generate_failure_response(Message(<<"API Request timed out.">>))
    ELSE IF net.kind = "error"
        THEN generate_failure_response(Message(<<"Error retrieving character info: ", "e">>))
    ELSE IF net.status = 401 THEN generate_failure_response(Message(<<"mrivals1 fail">>))
    ELSE IF net.status = 404 THEN generate_failure_response(Message(<<"mrivals2 fail">>))
    ELSE IF net.status = 429 THEN generate_failure_response(Message(<<"mrivals3 fail">>))
    ELSE IF net.status >= 500 THEN generate_failure_response(Message(<<"mod.io API5 request failed">>))
    ELSE IF net.status # 200 THEN generate_failure_response(Message(<<"mod.io API2 request failed">>))
    ELSE IF net.body = "bad"
        THEN generate_failure_response(Message(<<"Error retrieving character info: ", "e">>))
    ELSE generate_success_response(
             Message(<<"Summary: ">> \o summarize_character(character_name)))

\* The try block of execute_get_player_stats, lines 370-405.
PlayerRequest(player_name, net) ==
    IF net.kind = "timeout" THEN generate_failure_response(Message(<<"API Request timed out.">>))
    ELSE IF net.kind = "error"
        THEN generate_failure_response(Message(<<"Error retrieving character info: ", "e">>))
    ELSE IF net.status = 401 THEN generate_failure_response(Message(<<"mrivals1 fail">>))
    ELSE IF net.status = 404 THEN generate_failure_response(Message(<<"mrivals2 fail">>))
    ELSE IF net.status = 429 THEN generate_failure_response(Message(<<"mrivals3 fail">>))
    ELSE IF net.status >= 500 THEN generate_failure_response(Message(<<"mrivals4 fails">>))
    ELSE IF net.status # 200 THEN generate_failure_response(Message(<<"mrivals5 fails">>))
    ELSE IF net.body = "bad"
        THEN generate_failure_response(Message(<<"Error retrieving character info: ", "e">>))
    ELSE generate_success_response(
             Message(<<"Summary: ">> \o summarize_player_stats(player_name)))

(***************************************************************************)
(* The command handlers.                                                   *)
(***************************************************************************)
execute_initialize_command ==
    Handled(generate_success_response(PyStr(<<"initialize success.">>)), 0, NoUrl)

execute_shutdown_command ==
    Handled(generate_success_response(PyStr(<<"shutdown success.">>)), 0, NoUrl)

execute_get_character_info(params, cfg, net) ==
    LET k == ReadConfigKey(cfg) IN
    IF k.exc # "none" THEN Handled(Raise(k.exc), 0, NoUrl)
    ELSE IF ~k.bound THEN Handled(Raise("UnboundLocalError"), 0, NoUrl)
    ELSE IF ~Truthy(k.key)
        THEN Handled(generate_failure_response(Message(MissingKeyMessage)), 0, NoUrl)
    ELSE IF params.t # "dict" THEN Handled(Raise("TypeError"), 0, NoUrl)
    ELSE LET character_name == NameParam(params, "character_name", <<"ironman">>)
             url == <<"https://marvelrivalsapi.com/api/v1/heroes/hero/">> \o character_name
         IN  Handled(CharacterRequest(character_name, net), 1, url)

execute_get_player_stats(params, cfg, net) ==
    LET k == ReadConfigKey(cfg) IN
    IF k.exc # "none" THEN Handled(Raise(k.exc), 0, NoUrl)
    ELSE IF ~k.bound THEN Handled(Raise("UnboundLocalError"), 0, NoUrl)
    ELSE IF ~Truthy(k.key)
        THEN Handled(generate_failure_response(Message(MissingKeyMessage)), 0, NoUrl)
    ELSE IF params.t # "dict" THEN Handled(Raise("TypeError"), 0, NoUrl)
    ELSE LET player_name == NameParam(params, "player_name", <<"jaddo11">>)
             url == <<"https://marvelrivalsapi.com/api/v1/player/">> \o player_name
         IN  Handled(PlayerRequest(player_name, net), 1, url)

(***************************************************************************)
(* What the host sends.  A sub-command is a mapping with or without        *)
(* 'func' and 'params'; an envelope is a mapping with or without           *)
(* 'tool_calls'.  "foo" is a name that is not registered.                  *)
(***************************************************************************)
INITIALIZE_COMMAND == "initialize"
SHUTDOWN_COMMAND == "shutdown"
DomainCommands == {"mrivals_get_character_info", "mrivals_get_player_stats"}
Registered == {INITIALIZE_COMMAND, SHUTDOWN_COMMAND} \cup DomainCommands
FuncNames == Registered \cup {"foo"}

ParamsValues ==
    { PyDict([character_name |-> PyStr(<<"spiderman">>)]),
      PyDict([player_name |-> PyStr(<<"bob">>)]),
      PyDict([character_name |-> PyNone]),
      PyNone }

ToolCalls ==
    { [func |-> f] : f \in FuncNames }
    \cup { [func |-> f, params |-> p] : f \in DomainCommands, p \in ParamsValues }
    \cup { [params |-> PyDict(EmptyMap)] }

Batches == UNION { [1..n -> ToolCalls] : n \in 0..MaxBatch }

Envelopes ==
    { PyDict([tool_calls |-> b]) : b \in Batches }
    \cup { PyDict(EmptyMap), PyDict([messages |-> << >>]) }

JsonDocs == Envelopes \cup {PyNone}

(***************************************************************************)
(* Frames on the pipe.  kind "json" is the JSON text of doc, "truncated" a *)
(* proper prefix of that text, "marked" that text followed by '<<END>>',   *)
(* "garbage" any other text.  len is the byte                              *)
(* length of the frame and mb the number of bytes by which it exceeds its  *)
(* character count (0 for ASCII).  JSON text may be padded with white      *)
(* space, so a text can have any length from its minimum up.               *)
(***************************************************************************)
LongDocs ==
    { PyDict([tool_calls |-> <<[func |-> "mrivals_get_character_info",
                                params |-> PyDict([character_name |-> PyStr(<<"spiderman">>)])]>>]),
      PyDict([tool_calls |-> << >>]) }

\* documents whose JSON text holds a character of more than one byte
NonAsciiDocs ==
    { PyDict([tool_calls |-> <<[func |-> "mrivals_get_player_stats",
                                params |-> PyDict([player_name |-> PyStr(<<"José">>)])]>>]) }

Frames ==
    { [kind |-> k, doc |-> d, len |-> ShortLen, mb |-> 0] :
          k \in {"json", "truncated"}, d \in JsonDocs }
    \cup { [kind |-> "garbage", doc |-> PyNone, len |-> n, mb |-> 0] : n \in {0, ShortLen} }
    \cup { [kind |-> "json", doc |-> d, len |-> ShortLen, mb |-> 1] : d \in NonAsciiDocs }
    \cup { [kind |-> "marked", doc |-> d, len |-> ShortLen, mb |-> 0] : d \in LongDocs }
    \cup { [kind |-> "json", doc |-> d, len |-> n, mb |-> 0] :
          d \in LongDocs, n \in {BUFFER_SIZE, BUFFER_SIZE + ShortLen, 2 * BUFFER_SIZE} }

NoFrame == [kind |-> "none", doc |-> PyNone, len |-> 0, mb |-> 0]

(***************************************************************************)
(* read_command.  One ReadFile call receives n bytes of frame f from       *)
(* offset off.  The chunk is buffer.decode('utf-8')[:n]: the first n       *)
(* CHARACTERS of the decoded 4096-byte buffer, so a chunk whose n bytes    *)
(* hold fewer than n characters also takes NUL characters of the unused    *)
(* rest of the buffer (nul of them).                                       *)
(***************************************************************************)
Chunk(f, off, n) ==
    [frame |-> f, off |-> off, n |-> n, nul |-> Min(f.mb, BUFFER_SIZE - n)]

RECURSIVE Received(_)
Received(cs) == IF cs = << >> THEN 0 ELSE cs[Len(cs)].n + Received(SubSeq(cs, 1, Len(cs) - 1))

\* ''.join(chunks) is exactly the text of one frame
Whole(cs) ==
    /\ cs # << >>
    /\ \A i \in 1..Len(cs) :
          /\ cs[i].frame = cs[1].frame
          /\ cs[i].off = Received(SubSeq(cs, 1, i - 1))
          /\ cs[i].nul = 0
    /\ Received(cs) = cs[1].frame.len

json_loads(cs) ==
    IF Whole(cs) /\ cs[1].frame.kind = "json"
    THEN Return(cs[1].frame.doc)
    ELSE Raise("JSONDecodeError")

\* read_command with 'return {}' in place of 'return None' in its handlers
read_command_empty_dict(cs) ==
    LET r == json_loads(cs) IN IF r.exc = "none" THEN r.val ELSE PyDict(EmptyMap)

\* lines 136-147: the parsed value, or None on any exception
read_command(cs) ==
    LET r == json_loads(cs) IN IF r.exc = "none" THEN r.val ELSE PyNone

(***************************************************************************)
(* write_response: json.dumps(response) + '<<END>>'.  Text is modelled as  *)
(* a sequence of tokens.  Keys are written in insertion order; 'message'   *)
(* is the only key a payload of this program carries, 'success' is put     *)
(* last by the builders.                                                   *)
(***************************************************************************)
END_MARKER == "<<END>>"
KeyOrder == <<"message", "success">>

DumpValue(v) ==
    IF v.t = "None" THEN <<"null">>
    ELSE IF v.t = "bool" THEN <<IF v.b THEN "true" ELSE "false">>
    ELSE <<"\"">> \o v.s \o <<"\"">>

RECURSIVE DumpMembers(_, _)
DumpMembers(d, ks) ==
    IF ks = << >> THEN << >>
    ELSE LET k == Head(ks)
             rest == DumpMembers(d, Tail(ks))
         IN  IF k \in DOMAIN d
             THEN <<"\"", k, "\"", ": ">> \o DumpValue(d[k])
                  \o (IF rest = << >> THEN << >> ELSE <<", ">> \o rest)
             ELSE rest

json_dumps(v) ==
    IF v.t = "dict" THEN <<"{">> \o DumpMembers(v.d, KeyOrder) \o <<"}">>
    ELSE DumpValue(v)

\* The frame handed to WriteFile for a response value
write_response(v) == [value |-> v, text |-> json_dumps(v) \o <<END_MARKER>>]

(***************************************************************************)
(* The command registry and one call through it (lines 61-66, 85-89):      *)
(* initialize and shutdown are called without arguments, the others with   *)
(* tool_call['params'] or {}.                                              *)
(***************************************************************************)
\* a dispatch that passes None when the sub-command has no 'params'
ParamsOf_none(tool_call) ==
    IF "params" \in DOMAIN tool_call THEN tool_call.params ELSE PyNone

ParamsOf(tool_call) ==
    IF "params" \in DOMAIN tool_call THEN tool_call.params ELSE PyDict(EmptyMap)

ArgsOf(name, tool_call) ==
    IF name \in {INITIALIZE_COMMAND, SHUTDOWN_COMMAND} THEN << >> ELSE <<ParamsOf(tool_call)>>

commands(name, tool_call, cfg, net) ==
    IF name = INITIALIZE_COMMAND THEN execute_initialize_command
    ELSE IF name = SHUTDOWN_COMMAND THEN execute_shutdown_command
    ELSE IF name = "mrivals_get_character_info"
        THEN execute_get_character_info(ParamsOf(tool_call), cfg, net)
    ELSE execute_get_player_stats(ParamsOf(tool_call), cfg, net)

ERROR_MESSAGE == "Plugin Error!"

(***************************************************************************)
(* Initial state: main() has set cmd = '' and is about to test the loop    *)
(* condition; the pipe is empty.                                           *)
(***************************************************************************)
Init ==
    /\ pc = "loop"
    /\ cmd = ""
    /\ response = PyNone
    /\ input = PyNone
    /\ todo = << >>
    /\ chunks = << >>
    /\ pending = [frame |-> NoFrame, off |-> 0]
    /\ nframes = 0
    /\ config \in ConfigStates
    /\ calls = << >>
    /\ lastArgs = << >>
    /\ httpCount = 0
    /\ lastUrl = NoUrl
    /\ written = << >>
    /\ batchLen = -1
    /\ branch = "none"
    /\ initLog = << >>
    /\ exc = "none"

\* lines 70-72: the loop condition, response = None, and the call of
\* read_command, which starts with chunks = [].  The per-iteration records
\* (calls, lastArgs, httpCount, lastUrl, written, batchLen, branch) start
\* afresh.
Iterate ==
    /\ pc = "loop"
    /\ IF cmd # SHUTDOWN_COMMAND
       THEN /\ pc' = "read"
            /\ response' = PyNone
            /\ input' = PyNone
            /\ todo' = << >>
            /\ chunks' = << >>
            /\ calls' = << >>
            /\ lastArgs' = << >>
            /\ httpCount' = 0
            /\ lastUrl' = NoUrl
            /\ written' = << >>
            /\ batchLen' = -1
            /\ branch' = "none"
       ELSE /\ pc' = "done"
            /\ UNCHANGED <<response, input, todo, chunks, calls, lastArgs,
                           httpCount, lastUrl, written, batchLen, branch>>
    /\ UNCHANGED <<cmd, pending, nframes, config, initLog, exc>>

\* a main() that leaves the loop when read_command yields no command
ReadFileFails_exits ==
    /\ pc = "read"
    /\ input' = PyNone
    /\ chunks' = << >>
    /\ pc' = "done"
    /\ UNCHANGED <<cmd, response, todo, pending, nframes, config, calls, lastArgs,
                   httpCount, lastUrl, written, batchLen, branch, initLog, exc>>

\* lines 121-125 and 73-75: ReadFile fails, read_command returns None and
\* main() continues with the next iteration.
ReadFileFails ==
    /\ pc = "read"
    /\ input' = PyNone
    /\ chunks' = << >>
    /\ pc' = "loop"
    /\ UNCHANGED <<cmd, response, todo, pending, nframes, config, calls, lastArgs,
                   httpCount, lastUrl, written, batchLen, branch, initLog, exc>>

\* lines 117-147 and 73-77: ReadFile delivers the next bytes of the pipe, at
\* most BUFFER_SIZE of them.  A read shorter than the buffer ends the read
\* loop: the joined chunks are parsed and main() goes on with the result.
ReadFileChunk ==
    /\ pc = "read"
    /\ LET fresh == pending.off = pending.frame.len IN
       \E f \in (IF fresh THEN Frames ELSE {pending.frame}) :
          /\ fresh => nframes < MaxFrames
          /\ LET off == IF fresh THEN 0 ELSE pending.off
                 n == Min(BUFFER_SIZE, f.len - off)
                 cs == Append(chunks, Chunk(f, off, n))
             IN  /\ pending' = IF off + n = f.len
                                THEN [frame |-> NoFrame, off |-> 0]
                                ELSE [frame |-> f, off |-> off + n]
                 /\ nframes' = IF fresh THEN nframes + 1 ELSE nframes
                 /\ IF n < BUFFER_SIZE
                    THEN /\ input' = read_command(cs)
                         /\ chunks' = cs
                         /\ pc' = IF read_command(cs) = PyNone THEN "loop" ELSE "dispatch"
                    ELSE /\ chunks' = cs
                         /\ pc' = "read"
                         /\ UNCHANGED input
    /\ UNCHANGED <<cmd, response, todo, config, calls, lastArgs,
                   httpCount, lastUrl, written, batchLen, branch, initLog, exc>>

\* lines 79-80 and 96-98: the test for 'tool_calls'
Dispatch ==
    /\ pc = "dispatch"
    /\ IF "tool_calls" \in DOMAIN input.d
       THEN /\ todo' = input.d.tool_calls
            /\ batchLen' = Len(input.d.tool_calls)
            /\ pc' = IF input.d.tool_calls = << >> THEN "write" ELSE "for"
            /\ UNCHANGED <<response, branch, exc>>
       ELSE LET r == generate_failure_response(PyStr(<<ERROR_MESSAGE, " Malformed input.">>))
            IN  /\ IF r.exc = "none"
                   THEN /\ response' = r.val
                        /\ pc' = "write"
                        /\ UNCHANGED exc
                   ELSE /\ pc' = "crashed"
                        /\ exc' = r.exc
                        /\ UNCHANGED response
                /\ branch' = "no tool_calls"
                /\ UNCHANGED <<todo, batchLen>>
    /\ UNCHANGED <<cmd, input, chunks, pending, nframes, config, calls, lastArgs,
                   httpCount, lastUrl, written, initLog>>

\* lines 81-95: one pass of the for statement over tool_calls
ForStep ==
    /\ pc = "for"
    /\ todo # << >>
    /\ \E net \in NetOutcomes :
          LET tool_call == Head(todo)
              hasFunc == "func" \in DOMAIN tool_call
              name == IF hasFunc THEN tool_call.func ELSE cmd
              known == hasFunc /\ name \in Registered
              h == IF known THEN commands(name, tool_call, config, net)
                   ELSE IF hasFunc
                   THEN Handled(generate_failure_response(
                            PyStr(<<ERROR_MESSAGE, " Unknown command: ", name>>)), 0, NoUrl)
                   ELSE Handled(generate_failure_response(
                            PyStr(<<ERROR_MESSAGE, " Malformed input.">>)), 0, NoUrl)
          IN  /\ cmd' = name
              /\ branch' = IF known THEN "registered"
                            ELSE IF hasFunc THEN "unknown" ELSE "no func"
              /\ calls' = IF known THEN Append(calls, name) ELSE calls
              /\ lastArgs' = IF known THEN ArgsOf(name, tool_call) ELSE lastArgs
              /\ httpCount' = httpCount + h.http
              /\ lastUrl' = IF h.http > 0 THEN h.url ELSE lastUrl
              /\ IF h.exc = "none"
                 THEN /\ response' = h.val
                      /\ todo' = Tail(todo)
                      /\ pc' = IF Tail(todo) = << >> THEN "write" ELSE "for"
                      /\ UNCHANGED exc
                 ELSE /\ pc' = "crashed"
                      /\ exc' = h.exc
                      /\ UNCHANGED <<response, todo>>
    /\ UNCHANGED <<input, chunks, pending, nframes, config, written, batchLen, initLog>>

\* lines 100-105: write_response(response), then the shutdown test.  The
\* result of WriteFile is not looked at, and an exception is swallowed.
WriteResponse ==
    /\ pc = "write"
    /\ written' = Append(written, write_response(response))
    /\ pc' = IF cmd = SHUTDOWN_COMMAND THEN "done" ELSE "loop"
    /\ initLog' = IF batchLen = 1 /\ calls = <<INITIALIZE_COMMAND>>
                  THEN Append(initLog, [value |-> response, cmd |-> cmd])
                  ELSE initLog
    /\ UNCHANGED <<cmd, response, input, todo, chunks, pending, nframes, config,
                   calls, lastArgs, httpCount, lastUrl, batchLen, branch, exc>>

Next ==
    \/ Iterate
    \/ ReadFileFails
    \/ ReadFileChunk
    \/ Dispatch
    \/ ForStep
    \/ WriteResponse

Spec == Init /\ [][Next]_vars

(***************************************************************************)
(* Vocabulary of the properties.                                           *)
(***************************************************************************)
Range(q) == { q[i] : i \in DOMAIN q }

\* a response mapping: a dict with a boolean 'success'
IsResponse(v) == v.t = "dict" /\ "success" \in DOMAIN v.d /\ v.d.success.t = "bool"
IsSuccess(v) == IsResponse(v) /\ v.d.success.b
IsFailure(v) == IsResponse(v) /\ ~v.d.success.b

MalformedInputMessage == PyStr(<<ERROR_MESSAGE, " Malformed input.">>)

\* main() has left the loop: by return (done) or by an uncaught exception
Stopped == pc \in {"done", "crashed"}

\* read_command has returned after a short read (chunks are kept until its next call)
ReadEnded == pc # "read" /\ chunks # << >>
\* the joined chunks are the complete JSON text of one frame
ValidJsonText(cs) == Whole(cs) /\ cs[1].frame.kind = "json"

\* the envelope read in this iteration has exactly one sub-command, with a registered name
SingleRegistered ==
    /\ input.t = "dict"
    /\ "tool_calls" \in DOMAIN input.d
    /\ Len(input.d.tool_calls) = 1
    /\ "func" \in DOMAIN input.d.tool_calls[1]
    /\ input.d.tool_calls[1].func \in Registered

(***************************************************************************)
(* C1: an envelope with exactly one sub-command of a registered name       *)
(* never ends main() with an exception, and when its iteration is over     *)
(* exactly one frame has been written, a mapping with a boolean 'success'. *)
(***************************************************************************)
C1_SingleRegisteredOneResponse ==
    SingleRegistered =>
        /\ pc # "crashed"
        /\ Len(written) <= 1
        /\ pc \in {"loop", "done"} =>
              Len(written) = 1 /\ IsResponse(written[1].value)

(***************************************************************************)
(* C2: a batch of n sub-commands writes one response after each            *)
(* sub-command: before the for statement takes the next sub-command as     *)
(* many frames are written as sub-commands are processed, at the end of    *)
(* the iteration n frames are written, and a batch ending in shutdown      *)
(* leaves the loop.                                                        *)
(***************************************************************************)
C2_BatchWritesOnePerSubCommand ==
    batchLen >= 1 =>
        /\ pc = "for" => Len(written) = batchLen - Len(todo)
        /\ pc \in {"loop", "done"} => Len(written) = batchLen
        /\ (pc \in {"loop", "done"} /\ cmd = SHUTDOWN_COMMAND) => pc = "done"

(***************************************************************************)
(* C3: once the shutdown handler has run as the latest sub-command, main() *)
(* holds its success response and goes on to write it and to leave the     *)
(* loop by return; and main() leaves the loop in no other way: whenever it *)
(* has stopped, it has returned, cmd is 'shutdown' and the last frame      *)
(* written is the shutdown handler's success response.                     *)
(***************************************************************************)
C3_ShutdownStopsAfterResponse ==
    /\ (branch = "registered" /\ cmd = SHUTDOWN_COMMAND) =>
          /\ pc \in {"for", "write", "done"}
          /\ IsSuccess(response)
    /\ Stopped =>
          /\ pc = "done"
          /\ cmd = SHUTDOWN_COMMAND
          /\ written # << >>
          /\ IsSuccess(written[Len(written)].value)

(***************************************************************************)
(* C4: after a sub-command whose name is not registered, no handler has    *)
(* been invoked for it, main() has not stopped, and the response is a      *)
(* failure whose message includes the name.                                *)
(***************************************************************************)
C4_UnknownCommandFailureResponse ==
    branch = "unknown" =>
        /\ ~Stopped
        /\ cmd \notin Range(calls)
        /\ IsFailure(response)
        /\ "message" \in DOMAIN response.d
        /\ cmd \in Range(response.d.message.s)

(***************************************************************************)
(* C5: whenever read_command has returned on text that is not the JSON     *)
(* text of one frame (truncated, garbage, padded with NULs, two frames     *)
(* joined), main() is back at the loop test with cmd # 'shutdown', so that *)
(* the next step is another read; no handler was invoked, nothing was      *)
(* written and no exception ended main().                                  *)
(***************************************************************************)
C5_InvalidJsonKeepsLoopRunning ==
    (ReadEnded /\ ~ValidJsonText(chunks)) =>
        /\ pc = "loop"
        /\ cmd # SHUTDOWN_COMMAND
        /\ input = PyNone
        /\ calls = << >>
        /\ written = << >>
        /\ exc = "none"

\* C5's case: a truncated frame was read after an earlier frame, main() is at the loop test
C5_Witness ==
    /\ ReadEnded
    /\ Whole(chunks)
    /\ chunks[1].frame.kind = "truncated"
    /\ chunks[1].frame.doc = PyDict([tool_calls |-> <<[func |-> SHUTDOWN_COMMAND]>>])
    /\ nframes = 2
    /\ pc = "loop"

(***************************************************************************)
(* C6: after the test for 'tool_calls' has failed on a decoded envelope,   *)
(* no handler has been invoked, main() has not stopped, the response is    *)
(* the failure with the fixed malformed-input message, and at the end of   *)
(* the iteration exactly that one frame is written.                        *)
(***************************************************************************)
C6_MissingToolCallsFailureResponse ==
    branch = "no tool_calls" =>
        /\ ~Stopped
        /\ calls = << >>
        /\ IsFailure(response)
        /\ "message" \in DOMAIN response.d
        /\ response.d.message = MalformedInputMessage
        /\ pc = "loop" => Len(written) = 1 /\ written[1].value = response

(***************************************************************************)
(* C7: every value handed to write_response is a mapping with a boolean    *)
(* 'success'.                                                              *)
(***************************************************************************)
C7_WrittenValuesAreResponses ==
    \A i \in DOMAIN written : IsResponse(written[i].value)

(***************************************************************************)
(* C8: every run of the initialize handler returns a success response      *)
(* (main() does not stop), and any two completed iterations of a lone      *)
(* 'initialize' wrote equal responses and left equal loop state.           *)
(***************************************************************************)
C8_InitializeTwiceSame ==
    /\ (branch = "registered" /\ cmd = INITIALIZE_COMMAND) =>
          ~Stopped /\ IsSuccess(response)
    /\ \A i, j \in DOMAIN initLog : initLog[i] = initLog[j]

(***************************************************************************)
(* C9: after a domain handler has been called, main() has not been ended   *)
(* by an exception: whatever went wrong in the handler, main() holds a     *)
(* response mapping.                                                       *)
(***************************************************************************)
C9_HandlerErrorsBecomeResponses ==
    (branch = "registered" /\ cmd \in DomainCommands) =>
        /\ pc # "crashed"
        /\ exc = "none"
        /\ IsResponse(response)

(***************************************************************************)
(* C10: after a domain handler has been called while no API key is         *)
(* available (CONFIG_FILE absent, or present without a non-empty           *)
(* 'api_key'), the handler has returned a failure response, raised no      *)
(* exception and made no HTTP request.                                     *)
(***************************************************************************)
C10_MissingApiKeyFailureResponse ==
    (branch = "registered" /\ cmd \in DomainCommands
        /\ config \in {"absent", "nokey", "emptykey"}) =>
        /\ pc # "crashed"
        /\ exc = "none"
        /\ IsFailure(response)
        /\ httpCount = 0

\* the params key a domain handler looks up
RequiredKey(name) ==
    IF name = "mrivals_get_character_info" THEN "character_name" ELSE "player_name"

\* the latest handler call was a domain handler given a mapping without its key
LacksRequiredParam ==
    /\ branch = "registered"
    /\ cmd \in DomainCommands
    /\ lastArgs[1].t = "dict"
    /\ RequiredKey(cmd) \notin DOMAIN lastArgs[1].d

(***************************************************************************)
(* C11: after a domain handler has been called with params that lack the   *)
(* key it requires (an API key being available, so that the handler gets   *)
(* to look at params), main() has not been ended by an exception and the   *)
(* response is a failure.                                                  *)
(***************************************************************************)
C11_MissingParamFailureResponse ==
    (LacksRequiredParam /\ config = "haskey") =>
        /\ pc # "crashed"
        /\ IsFailure(response)

(***************************************************************************)
(* The response builders on their own: a payload is drawn, one of the two  *)
(* builders is applied to it (input holds the payload, response the        *)
(* result, branch the builder that ran).  Payloads are None (no payload)   *)
(* and mappings over three keys, 'success' among them, with str, bool,     *)
(* None and nested-mapping values.                                         *)
(***************************************************************************)
BuilderKeys == {"message", "success", "data"}
BuilderValues ==
    { PyStr(<<"text">>), PyBool(TRUE), PyBool(FALSE), PyNone,
      PyDict([success |-> PyBool(FALSE)]) }
BuilderPayloads ==
    {PyNone} \cup { PyDict(d) : d \in UNION { [K -> BuilderValues] : K \in SUBSET BuilderKeys } }

BuilderInit ==
    /\ pc = "build"
    /\ input \in BuilderPayloads
    /\ cmd = ""
    /\ response = PyNone
    /\ todo = << >>
    /\ chunks = << >>
    /\ pending = [frame |-> NoFrame, off |-> 0]
    /\ nframes = 0
    /\ config = "absent"
    /\ calls = << >>
    /\ lastArgs = << >>
    /\ httpCount = 0
    /\ lastUrl = NoUrl
    /\ written = << >>
    /\ batchLen = -1
    /\ branch = "none"
    /\ initLog = << >>
    /\ exc = "none"

BuildSuccess ==
    /\ pc = "build"
    /\ LET r == generate_success_response(input)
       IN  /\ response' = r.val
           /\ exc' = r.exc
    /\ branch' = "success"
    /\ pc' = "built"
    /\ UNCHANGED <<cmd, input, todo, chunks, pending, nframes, config, calls, lastArgs,
                   httpCount, lastUrl, written, batchLen, initLog>>

BuildFailure ==
    /\ pc = "build"
    /\ LET r == generate_failure_response(input)
       IN  /\ response' = r.val
           /\ exc' = r.exc
    /\ branch' = "failure"
    /\ pc' = "built"
    /\ UNCHANGED <<cmd, input, todo, chunks, pending, nframes, config, calls, lastArgs,
                   httpCount, lastUrl, written, batchLen, initLog>>

BuilderNext ==
    \/ BuildSuccess
    \/ BuildFailure

SpecBuilders == BuilderInit /\ [][BuilderNext]_vars

\* the keys of a payload (none when there is no payload)
PayloadKeys(p) == IF p.t = "dict" THEN DOMAIN p.d ELSE {}

(***************************************************************************)
(* C12: a builder applied to a mapping payload, or to no payload, returns  *)
(* a mapping whose keys are the payload's keys and 'success'; 'success' is *)
(* the builder's flag (true for generate_success_response, false for       *)
(* generate_failure_response) whatever the payload held under that key,    *)
(* and every other key holds the payload's value unchanged.                *)
(***************************************************************************)
C12_BuildersMergeFlagWins ==
    pc = "built" =>
        /\ exc = "none"
        /\ response.t = "dict"
        /\ DOMAIN response.d = PayloadKeys(input) \cup {"success"}
        /\ response.d.success = PyBool(branch = "success")
        /\ \A k \in PayloadKeys(input) \ {"success"} : response.d[k] = input.d[k]

\* C12's case: the failure builder ran on a payload that carries success = true
C12_Witness ==
    /\ pc = "built"
    /\ branch = "failure"
    /\ input.t = "dict"
    /\ DOMAIN input.d = BuilderKeys
    /\ input.d.success = PyBool(TRUE)
    /\ input.d.data = PyDict([success |-> PyBool(FALSE)])

\* the envelope of this iteration is a batch that starts with 'shutdown' and
\* ends with a registered command other than 'shutdown'
ShutdownThenOther ==
    /\ input.t = "dict"
    /\ "tool_calls" \in DOMAIN input.d
    /\ Len(input.d.tool_calls) >= 2
    /\ "func" \in DOMAIN input.d.tool_calls[1]
    /\ input.d.tool_calls[1].func = SHUTDOWN_COMMAND
    /\ "func" \in DOMAIN input.d.tool_calls[Len(input.d.tool_calls)]
    /\ input.d.tool_calls[Len(input.d.tool_calls)].func \in Registered \ {SHUTDOWN_COMMAND}

(***************************************************************************)
(* C13: the shutdown test after a batch looks at the name of the last      *)
(* sub-command: an iteration over a batch ends with main() returned if and *)
(* only if cmd is 'shutdown'; and in a batch where 'shutdown' comes first  *)
(* and a registered command other than shutdown comes last, the shutdown   *)
(* handler is invoked and returns (main() is not ended there), and the     *)
(* iteration ends with the loop still running.                             *)
(***************************************************************************)
C13_LastSubCommandDecidesShutdown ==
    /\ (batchLen >= 1 /\ pc \in {"loop", "done"}) =>
          (pc = "done" <=> cmd = SHUTDOWN_COMMAND)
    /\ ShutdownThenOther =>
          /\ ~(pc = "crashed" /\ cmd = SHUTDOWN_COMMAND)
          /\ pc \in {"loop", "done"} =>
                pc = "loop" /\ SHUTDOWN_COMMAND \in Range(calls)

\* the byte ranges received by the reads of cs are, in order, the bytes of one frame
ReceivedWholeFrame(cs) ==
    /\ cs # << >>
    /\ \A i \in 1..Len(cs) :
          /\ cs[i].frame = cs[1].frame
          /\ cs[i].off = Received(SubSeq(cs, 1, i - 1))
    /\ Received(cs) = cs[1].frame.len

(***************************************************************************)
(* C14: read_command goes on reading while every read fills the buffer and *)
(* stops at the first read shorter than BUFFER_SIZE (so a frame of exactly *)
(* BUFFER_SIZE bytes is followed by another read); and the text it parses  *)
(* is the received bytes of the chunks and nothing else: no chunk carries  *)
(* characters from beyond its received range, and when the received bytes  *)
(* are the JSON text of one frame, the result is that frame's document.    *)
(***************************************************************************)
C14_ReadsUntilShortReadParsesReceivedBytes ==
    /\ \A i \in 1..(Len(chunks) - 1) : chunks[i].n = BUFFER_SIZE
    /\ (pc = "read" /\ chunks # << >>) => chunks[Len(chunks)].n = BUFFER_SIZE
    /\ ReadEnded => chunks[Len(chunks)].n < BUFFER_SIZE
    /\ \A i \in 1..Len(chunks) : chunks[i].nul = 0
    /\ (ReadEnded /\ ReceivedWholeFrame(chunks) /\ chunks[1].frame.kind = "json") =>
          input = chunks[1].frame.doc

\* the frame that carries the text of written frame w, as read_command would receive it
FrameOfWritten(w) ==
    [kind |-> IF w.text = json_dumps(w.value) THEN "json"
              ELSE IF w.text = json_dumps(w.value) \o <<END_MARKER>> THEN "marked"
              ELSE "garbage",
     doc |-> w.value, len |-> ShortLen, mb |-> 0]

(***************************************************************************)
(* C15: reading and writing use one framing convention: a frame as         *)
(* write_response emits it is a frame that read_command, given that frame  *)
(* in one short read, takes as complete and parses to the value written.   *)
(***************************************************************************)
C15_SameFramingBothDirections ==
    \A i \in 1..Len(written) :
        json_loads(<<Chunk(FrameOfWritten(written[i]), 0, ShortLen)>>)
            = Return(written[i].value)

(***************************************************************************)
(* C16: when the text read_command has accumulated does not parse as JSON, *)
(* main() does not crash and the iteration is answered like an envelope    *)
(* without 'tool_calls': by the time main() is back at the loop test, one  *)
(* frame has been written, a failure response with the fixed               *)
(* malformed-input message.                                                *)
(***************************************************************************)
C16_ParseFailureWritesFailureResponse ==
    (ReadEnded /\ ~ValidJsonText(chunks)) =>
        /\ pc # "crashed"
        /\ pc = "loop" =>
              /\ Len(written) = 1
              /\ IsFailure(written[1].value)
              /\ "message" \in DOMAIN written[1].value.d
              /\ written[1].value.d.message = MalformedInputMessage

(***************************************************************************)
(* C17: a step in which ReadFile fails (read_command returns with no chunk *)
(* kept) takes main() back to the loop test with no command: no handler    *)
(* has been invoked and nothing has been written in the iteration, cmd is  *)
(* what it was and is not 'shutdown', no exception has ended main(); and   *)
(* from the loop test after such a step the only step is the next read.    *)
(* Nothing bounds the number of failed reads in a row.                     *)
(***************************************************************************)
C17_FailedReadSkipsIteration ==
    /\ [][(pc = "read" /\ chunks' = << >>) =>
              /\ pc' = "loop"
              /\ input' = PyNone
              /\ cmd' = cmd
              /\ cmd' # SHUTDOWN_COMMAND
              /\ calls' = << >>
              /\ written' = << >>
              /\ response' = PyNone
              /\ exc' = "none"]_vars
    /\ [][(pc = "loop" /\ chunks = << >>) => pc' = "read"]_vars

\* C17's case: ReadFile has failed in an iteration after a domain command was handled
C17_Witness ==
    /\ pc = "loop"
    /\ chunks = << >>
    /\ input = PyNone
    /\ nframes >= 1
    /\ cmd \in DomainCommands

\* the sub-command the last step of the for loop has processed
ProcessedToolCall ==
    IF pc = "crashed" THEN Head(todo) ELSE input.d.tool_calls[batchLen - Len(todo)]

\* the envelope's value under key k, or None when the envelope has no such key
EnvelopeField(k) ==
    IF k \in DOMAIN input.d THEN input.d[k] ELSE PyNone

ShutdownThenNoFunc ==
    /\ input.t = "dict"
    /\ "tool_calls" \in DOMAIN input.d
    /\ Len(input.d.tool_calls) >= 2
    /\ "func" \in DOMAIN input.d.tool_calls[1]
    /\ input.d.tool_calls[1].func = SHUTDOWN_COMMAND
    /\ \A i \in 2..Len(input.d.tool_calls) : "func" \notin DOMAIN input.d.tool_calls[i]

(***************************************************************************)
(* C19: cmd changes only in a step of the for loop on a sub-command that   *)
(* carries 'func', and then to that name; and an iteration over a batch of *)
(* 'shutdown' followed only by sub-commands without 'func' does not end    *)
(* main() with an exception: it comes to the loop test with cmd still      *)
(* 'shutdown' (so that main() returns) after writing exactly one frame,    *)
(* the failure with the malformed-input message.                           *)
(***************************************************************************)
C19_CmdChangesOnlyWithFunc ==
    /\ [][cmd' # cmd =>
              /\ pc = "for"
              /\ "func" \in DOMAIN Head(todo)
              /\ cmd' = Head(todo).func]_vars
    /\ [](ShutdownThenNoFunc =>
              /\ pc # "crashed"
              /\ pc \in {"loop", "done"} =>
                    /\ cmd = SHUTDOWN_COMMAND
                    /\ Len(written) = 1
                    /\ IsFailure(written[1].value)
                    /\ "message" \in DOMAIN written[1].value.d
                    /\ written[1].value.d.message = MalformedInputMessage)

\* the last response was built by main() itself or by a built-in handler
BuiltInCallSite ==
    \/ branch \in {"unknown", "no func", "no tool_calls"}
    \/ branch = "registered" /\ cmd \in {INITIALIZE_COMMAND, SHUTDOWN_COMMAND}

(***************************************************************************)
(* C20: the calls of generate_success_response / generate_failure_response *)
(* made by main() (unknown command, missing 'func', missing 'tool_calls')  *)
(* and by the initialize and shutdown handlers return a response mapping,  *)
(* for the payload passed there: after such a call no exception has ended  *)
(* main() and response is a mapping with a boolean 'success'.              *)
(***************************************************************************)
C20_BuiltInBuilderCallsReturn ==
    BuiltInCallSite =>
        /\ exc = "none"
        /\ pc # "crashed"
        /\ IsResponse(response)

====
